---- MODULE Spec2Model ----
(***************************************************************************)
(* orthanc_instance_uids.py: the walk over studies -> series -> instances  *)
(* of an Orthanc server that collects the SOPInstanceUID, PatientID and    *)
(* PatientName of every annotated instance, and the writing of the result  *)
(* file by main.                                                           *)
(*                                                                         *)
(* Strings the code slices, lower-cases, searches or rewrites (instance    *)
(* IDs, annotation keys, PatientID, PatientName, ignore_str, UIDs) are     *)
(* sequences of one-character strings.  Study and series IDs are only      *)
(* ever compared and looked up, and are plain values.  A JSON object is a  *)
(* function whose DOMAIN is the set of keys present, so a subscript on an  *)
(* absent key is a KeyError.                                               *)
(***************************************************************************)
EXTENDS Naturals, Sequences, FiniteSets, TLC

VARIABLES
    server,               \* the content the REST interface serves (read-only)
    ignore_str,           \* --ignore_str: <<>> for None, <<s>> for the string s
    pc,                   \* position in extract_annotated_studies / main
    all_studies,          \* line 59
    study_i,              \* position of the loop of line 64 in all_studies
    instance_uuids,       \* lines 71-74
    patient_id,           \* line 78
    patient_name,         \* line 79
    all_series,           \* line 80
    series_i,             \* position of the loop of line 88 in all_series
    all_instances,        \* line 91
    instance_i,           \* position of the loop of line 93 in all_instances
    annotated_instances,  \* line 61
    patient_ids,          \* line 62
    patient_names,        \* line 63
    returned,             \* <<>> until line 102 returns, then the 3-tuple
    out_file,             \* the file of lines 123-126
    error,                \* the exception that left main, if any
    \* orthanc_delete.py
    delete_pc,            \* position in main / check_credentials / delete_from_server
    delete_type,          \* parse_args.type
    connection_status,    \* check_credentials, line 46
    connection_tests,     \* check_credentials, line 47
    credentials,          \* check_credentials, line 51: <<>> before the first prompt
    status,               \* main, line 83: <<>> before check_credentials returns
    main_credentials,     \* main, line 83
    prompt,               \* main, line 90: <<>> before the prompt is answered
    orthanc_list,         \* delete_from_server, line 71
    item_i,               \* position of the loop of line 73 in orthanc_list
    http_requests,        \* the requests the program sent, oldest first
    delete_error,         \* the exception that left main, if any
    \* orthanc_lists_to_annotate.py
    lists_pc,             \* position in main
    output_type,          \* parse_args.output_type
    chunk_size,           \* parse_args.chunk_size
    list_df,              \* main, line 116: the rows of the table
    random_df,            \* main, line 125
    interval,             \* main, line 128
    split_dfs,            \* main, line 131
    batch_i,              \* position of the loop of line 135 in split_dfs
    files,                \* the files written: file name |-> rows
    lists_error           \* the exception that left main, if any

vars == <<server, ignore_str, pc, all_studies, study_i, instance_uuids,
          patient_id, patient_name, all_series, series_i, all_instances,
          instance_i, annotated_instances, patient_ids, patient_names,
          returned, out_file, error>>

delete_vars == <<delete_pc, delete_type, connection_status, connection_tests,
                 credentials, status, main_credentials, prompt, orthanc_list,
                 item_i, http_requests, delete_error>>

lists_vars == <<lists_pc, output_type, chunk_size, list_df, random_df, interval,
                split_dfs, batch_i, files, lists_error>>

locals == <<all_studies, study_i, instance_uuids, patient_id, patient_name,
            all_series, series_i, all_instances, instance_i,
            annotated_instances, patient_ids, patient_names>>

(***************************************************************************)
(* Bounds of the model.                                                    *)
(***************************************************************************)
MaxStudies == 2

MaxChildren == 2

MaxKeys == 2

(***************************************************************************)
(* The strings of the model.                                               *)
(***************************************************************************)
StudyIds == 1 .. MaxStudies

SeriesIds == {"r1", "r2"}

InstanceIds == {<<"i">>, <<"j">>}

KeyPool == {<<"i", ":", "0">>, <<"j", ":", "0">>, <<"i", ":", "1", "0">>}

UidPool == {<<"u">>, <<"v">>}

Digits == <<"1", "2", "3", "4">>

\* Lists of at most n elements of S.
ListsUpTo(S, n) == UNION {[1 .. k -> S] : k \in 0 .. n}

\* Lists of at most n elements of S, none of them twice.
DistinctListsUpTo(S, n) ==
    {l \in ListsUpTo(S, n) : \A a, b \in 1 .. Len(l) : a # b => l[a] # l[b]}

(***************************************************************************)
(* Python's string operations.                                             *)
(***************************************************************************)
LowerOf == ("A" :> "a") @@ ("C" :> "c") @@ ("N" :> "n")

\* str.lower()
str_lower(s) ==
    [k \in 1 .. Len(s) |-> IF s[k] \in DOMAIN LowerOf THEN LowerOf[s[k]] ELSE s[k]]

\* str.replace(old, new) for one-character old and new
str_replace(s, old, new) ==
    [k \in 1 .. Len(s) |-> IF s[k] = old THEN new ELSE s[k]]

\* sub in s
str_in(sub, s) ==
    \E off \in 0 .. Len(s) :
        /\ off + Len(sub) <= Len(s)
        /\ \A k \in 1 .. Len(sub) : s[off + k] = sub[k]

\* ','.join(parts)
str_join(parts) ==
    LET RECURSIVE Join(_)
        Join(k) == IF k > Len(parts) THEN <<>>
                   ELSE IF k = 1 THEN parts[1] \o Join(2)
                   ELSE <<",">> \o parts[k] \o Join(k + 1)
    IN  Join(1)

(***************************************************************************)
(* The content of the server: what each GET of the walk answers.           *)
(*   studies                  GET /studies/                     (line 59)  *)
(*   attachments[s]           GET /studies/s/attachments/       (line 66)  *)
(*   annotation[s]            GET /studies/s/attachments/9999/data (l. 70) *)
(*   study_info[s]            GET /studies/s                    (line 77)  *)
(*   series_info[r]           GET /series/r                     (line 89)  *)
(*   instance_info[i]         GET /instances/i                  (line 96)  *)
(* annotation[s] maps each key of the JSON object to the truth value       *)
(* Python gives the key's value (line 71: `if annotation_data.get(key)`).   *)
(***************************************************************************)
DefaultPatientID(s) == IF s = 1 THEN <<"a", " ", "b">> ELSE <<"c", Digits[s]>>

DefaultPatientName(s) == <<"N", " ", Digits[s]>>

PatientIdPool == {<<"a", " ", "b">>, <<"c">>}

\* --ignore_str absent, empty, or a string
IgnorePool == {<<>>, << <<>> >>, << <<"A">> >>, << <<" ">> >>, << <<"_">> >>, << <<"C">> >>}

\* JSON objects with at most MaxKeys keys of KeyPool, each value truthy or falsy
AnnotationPool ==
    UNION {[K -> BOOLEAN] : K \in {K \in SUBSET KeyPool : Cardinality(K) <= MaxKeys}}

NoKeys == [k \in {} |-> TRUE]

StudyInfo(tags, series) ==
    IF Len(series) = 0 THEN [PatientMainDicomTags |-> tags]
    ELSE [PatientMainDicomTags |-> tags, Series |-> series[1]]

Tags(pid, pname) ==
    (IF Len(pid) = 0 THEN NoKeys ELSE ("PatientID" :> pid[1]))
    @@ (IF Len(pname) = 0 THEN NoKeys ELSE ("PatientName" :> pname[1]))

\* A study with an annotation of instance i, one series, and its own tags.
PlainStudy(s) ==
    [attachments |-> {"9999"},
     annotation  |-> (<<"i", ":", "0">> :> TRUE),
     info        |-> StudyInfo(Tags(<<DefaultPatientID(s)>>, <<DefaultPatientName(s)>>),
                               << <<"r1">> >>)]

\* A study whose attachments, annotation and series list vary.
VariedStudies(s) ==
    {[attachments |-> att, annotation |-> ann,
      info |-> StudyInfo(Tags(<<DefaultPatientID(s)>>, <<DefaultPatientName(s)>>), ser)] :
        att \in {{"9999"}},
        ann \in AnnotationPool,
        ser \in {<<>>} \cup {<<l>> : l \in DistinctListsUpTo(SeriesIds, MaxChildren)}}
    \cup
    {[attachments |-> {}, annotation |-> NoKeys,
      info |-> StudyInfo(Tags(<<DefaultPatientID(s)>>, <<DefaultPatientName(s)>>),
                         << <<"r1", "r2">> >>)]}

\* A study whose patient tags vary.
TaggedStudies(s) ==
    {[PlainStudy(s) EXCEPT !.info = StudyInfo(Tags(pid, pname), << <<"r1">> >>)] :
        pid \in {<<>>} \cup {<<p>> : p \in PatientIdPool},
        pname \in {<<>>, <<DefaultPatientName(s)>>}}

Instances(l) == IF Len(l) = 0 THEN NoKeys ELSE ("Instances" :> l[1])

InstanceInfo(u) ==
    [MainDicomTags |-> IF Len(u) = 0 THEN NoKeys ELSE ("SOPInstanceUID" :> u[1])]

ServerOf(n, content, instances_r1, instances_r2, uid_j) ==
    [studies       |-> [k \in 1 .. n |-> k],
     attachments   |-> [s \in StudyIds |-> content[s].attachments],
     annotation    |-> [s \in StudyIds |-> content[s].annotation],
     study_info    |-> [s \in StudyIds |-> content[s].info],
     series_info   |-> [r \in SeriesIds |->
                          IF r = "r1" THEN Instances(instances_r1)
                          ELSE Instances(<<instances_r2>>)],
     instance_info |-> [i \in InstanceIds |->
                          IF i = <<"i">> THEN InstanceInfo(<< <<"u">> >>)
                          ELSE InstanceInfo(uid_j)]]

\* Servers of n studies where study v varies and the others are plain.
VariedServers(n, v) ==
    {ServerOf(n, [s \in StudyIds |-> IF s = v THEN c ELSE PlainStudy(s)], ins, ins2, uid) :
        c \in VariedStudies(v),
        ins \in {<<>>} \cup {<<l>> : l \in ListsUpTo(InstanceIds, MaxChildren)},
        ins2 \in {<< <<"j">> >>, << <<"j">>, <<"i">> >>},
        uid \in {<<>>} \cup {<<u>> : u \in UidPool}}

\* Servers of n studies where the tags of study 1 vary.
TaggedServers(n) ==
    {ServerOf(n, [s \in StudyIds |-> IF s = 1 THEN c ELSE PlainStudy(s)],
              << <<<<"i">>, <<"j">>>> >>, << <<"j">>, <<"i">> >>, << <<"v">> >>) :
        c \in TaggedStudies(1)}

NoError == [type |-> "", args |-> <<>>]

NoFile == [exists |-> FALSE, lines |-> <<>>]

InitLocals ==
    /\ all_studies = <<>>
    /\ study_i = 0
    /\ instance_uuids = {}
    /\ patient_id = <<>>
    /\ patient_name = <<>>
    /\ all_series = <<>>
    /\ series_i = 0
    /\ all_instances = <<>>
    /\ instance_i = 0
    /\ annotated_instances = <<>>
    /\ patient_ids = <<>>
    /\ patient_names = <<>>

\* orthanc_delete.py is not run
DeleteIdle ==
    /\ delete_pc = "idle"
    /\ delete_type = "patients"
    /\ connection_status = FALSE
    /\ connection_tests = 0
    /\ credentials = <<>>
    /\ status = <<>>
    /\ main_credentials = <<>>
    /\ prompt = <<>>
    /\ orthanc_list = <<>>
    /\ item_i = 0
    /\ http_requests = <<>>
    /\ delete_error = NoError

\* orthanc_lists_to_annotate.py is not run
ListsIdle ==
    /\ lists_pc = "idle"
    /\ output_type = "full"
    /\ chunk_size = 1
    /\ list_df = <<>>
    /\ random_df = <<>>
    /\ interval = <<>>
    /\ split_dfs = <<>>
    /\ batch_i = 0
    /\ files = <<>>
    /\ lists_error = NoError

Init ==
    /\ DeleteIdle
    /\ ListsIdle
    /\ \/ /\ ignore_str \in {<<>>, << <<"C">> >>}
          /\ \E n \in 1 .. MaxStudies : \E v \in 1 .. n :
                server \in VariedServers(n, v)
       \/ /\ ignore_str \in IgnorePool
          /\ \E n \in 1 .. MaxStudies : server \in TaggedServers(n)
       \/ /\ ignore_str = <<>>
          /\ server = ServerOf(0, [s \in StudyIds |-> PlainStudy(s)], <<>>, <<>>, <<>>)
    /\ pc = "start"
    /\ InitLocals
    /\ returned = <<>>
    /\ out_file = NoFile
    /\ error = NoError

(***************************************************************************)
(* Exceptions.  Nothing in the file catches one: it leaves                 *)
(* extract_annotated_studies and main.  The variables of the frame keep    *)
(* the values they had when it was raised; nothing reads them again.       *)
(***************************************************************************)
\* what requests.get(...).json() raises when the request or the decoding fails
RequestError == [type |-> "RequestException", args |-> <<>>]

\* mutant of KeyError: the exception does not carry the key
KeyErrorUnnamed(key) == [type |-> "KeyError", args |-> <<>>]

\* what d[key] raises when key is not in d
KeyError(key) == [type |-> "KeyError", args |-> <<key>>]

\* mutant of Raise: the exception is caught and the lists collected so far
\* are returned
RaiseCaught(exc) ==
    /\ pc' = "write"
    /\ error' = exc
    /\ returned' = <<annotated_instances, patient_ids, patient_names>>
    /\ UNCHANGED <<server, ignore_str, locals, out_file>>

Raise(exc) ==
    /\ pc' = "raised"
    /\ error' = exc
    /\ UNCHANGED <<server, ignore_str, locals, returned, out_file>>

(***************************************************************************)
(* extract_annotated_studies                                               *)
(***************************************************************************)
\* the study, series and instance the loops are at
study == all_studies[study_i]

series == all_series[series_i]

instance == all_instances[instance_i]

\* mutant of HasAnnotationFile: the test of line 66 left out
HasAnnotationFileUntested(s) == TRUE

\* line 66: '9999' in the list of the study's attachments
HasAnnotationFile(s) == "9999" \in server.attachments[s]

\* mutant of TruthyKeys: every key, whatever its value
AllKeys(annotation_data) == DOMAIN annotation_data

\* line 71: the keys whose value is truthy
TruthyKeys(annotation_data) ==
    {key \in DOMAIN annotation_data : annotation_data[key]}

\* mutant of CutSuffix: the key is cut at its last ':'
CutAtColon(uuid) ==
    LET colons == {k \in 1 .. Len(uuid) : uuid[k] = ":"}
    IN  IF colons = {} THEN uuid
        ELSE SubSeq(uuid, 1, (CHOOSE k \in colons : \A m \in colons : m <= k) - 1)

\* line 74: uuid[:-2]
CutSuffix(uuid) ==
    IF Len(uuid) <= 2 THEN <<>> ELSE SubSeq(uuid, 1, Len(uuid) - 2)

\* mutant of InstanceUuids: the list is not started afresh for each study
InstanceUuidsKept(annotation_data) ==
    instance_uuids \cup {CutSuffix(uuid) : uuid \in TruthyKeys(annotation_data)}

\* lines 71-74: the list is only ever searched (line 94), so it is kept as a set
InstanceUuids(annotation_data) ==
    {CutSuffix(uuid) : uuid \in TruthyKeys(annotation_data)}

\* mutant of NormaliseTag: the tag is kept as stored
TagAsStored(value) == value

\* lines 78-79: .replace(' ', '_')
NormaliseTag(value) == str_replace(value, " ", "_")

\* line 83: ignore_str and ignore_str.lower() in patient_id.lower()
IsIgnored(ignore, pid) ==
    /\ Len(ignore) = 1
    /\ Len(ignore[1]) > 0
    /\ str_in(str_lower(ignore[1]), str_lower(pid))

\* line 94: instance in instance_uuids
IsAnnotated(inst, uuids) == inst \in uuids

\* mutant of AppendResult: the result is put in front
AppendResultInFront(instance_uid) ==
    /\ annotated_instances' = <<instance_uid>> \o annotated_instances
    /\ patient_ids' = <<patient_id>> \o patient_ids
    /\ patient_names' = <<patient_name>> \o patient_names

\* mutant of AppendResult: the UID is added again when line 98 is reached for
\* an instance already seen in this series
AppendResultAgain(instance_uid) ==
    /\ annotated_instances' =
          IF instance_i > 1
          THEN annotated_instances \o <<instance_uid, instance_uid>>
          ELSE Append(annotated_instances, instance_uid)
    /\ patient_ids' = Append(patient_ids, patient_id)
    /\ patient_names' = Append(patient_names, patient_name)

\* lines 98-100
AppendResult(instance_uid) ==
    /\ annotated_instances' = Append(annotated_instances, instance_uid)
    /\ patient_ids' = Append(patient_ids, patient_id)
    /\ patient_names' = Append(patient_names, patient_name)

\* lines 59-63
GetAllStudies ==
    /\ pc = "start"
    /\ UNCHANGED <<delete_vars, lists_vars>>
    /\ \E ok \in BOOLEAN :
        IF ~ok THEN Raise(RequestError)
        ELSE /\ all_studies' = server.studies
             /\ study_i' = 1
             /\ annotated_instances' = <<>>
             /\ patient_ids' = <<>>
             /\ patient_names' = <<>>
             /\ pc' = "study"
             /\ UNCHANGED <<server, ignore_str, instance_uuids, patient_id,
                            patient_name, all_series, series_i, all_instances,
                            instance_i, returned, out_file, error>>

\* lines 64-67: the next study, skipped when it has no annotation file
ForStudy ==
    /\ pc = "study"
    /\ UNCHANGED <<delete_vars, lists_vars>>
    /\ IF study_i > Len(all_studies)
       THEN /\ pc' = "return"
            /\ UNCHANGED <<server, ignore_str, locals, returned, out_file, error>>
       ELSE \E ok \in BOOLEAN :
            IF ~ok THEN Raise(RequestError)
            ELSE /\ IF HasAnnotationFile(study)
                    THEN pc' = "annotation" /\ study_i' = study_i
                    ELSE pc' = "study" /\ study_i' = study_i + 1
                 /\ UNCHANGED <<server, ignore_str, all_studies, instance_uuids,
                                patient_id, patient_name, all_series, series_i,
                                all_instances, instance_i, annotated_instances,
                                patient_ids, patient_names, returned, out_file,
                                error>>

\* lines 70-74
GetAnnotation ==
    /\ pc = "annotation"
    /\ UNCHANGED <<delete_vars, lists_vars>>
    /\ \E ok \in BOOLEAN :
        IF ~ok THEN Raise(RequestError)
        ELSE /\ instance_uuids' = InstanceUuids(server.annotation[study])
             /\ pc' = "study_info"
             /\ UNCHANGED <<server, ignore_str, all_studies, study_i, patient_id,
                            patient_name, all_series, series_i, all_instances,
                            instance_i, annotated_instances, patient_ids,
                            patient_names, returned, out_file, error>>

\* lines 77-84
GetStudyInfo ==
    /\ pc = "study_info"
    /\ UNCHANGED <<delete_vars, lists_vars>>
    /\ \E ok \in BOOLEAN :
        LET study_info == server.study_info[study]
            tags == study_info["PatientMainDicomTags"]
        IN  IF ~ok THEN Raise(RequestError)
            ELSE IF "PatientID" \notin DOMAIN tags THEN Raise(KeyError("PatientID"))
            ELSE IF "PatientName" \notin DOMAIN tags THEN Raise(KeyError("PatientName"))
            ELSE IF "Series" \notin DOMAIN study_info THEN Raise(KeyError("Series"))
            ELSE /\ patient_id' = NormaliseTag(tags["PatientID"])
                 /\ patient_name' = NormaliseTag(tags["PatientName"])
                 /\ all_series' = study_info["Series"]
                 /\ IF IsIgnored(ignore_str, patient_id')
                    THEN /\ pc' = "study"
                         /\ study_i' = study_i + 1
                         /\ series_i' = series_i
                    ELSE /\ pc' = "series"
                         /\ study_i' = study_i
                         /\ series_i' = 1
                 /\ UNCHANGED <<server, ignore_str, all_studies, instance_uuids,
                                all_instances, instance_i, annotated_instances,
                                patient_ids, patient_names, returned, out_file,
                                error>>

\* lines 88-91: the next series of the study
ForSeries ==
    /\ pc = "series"
    /\ UNCHANGED <<delete_vars, lists_vars>>
    /\ IF series_i > Len(all_series)
       THEN /\ pc' = "study"
            /\ study_i' = study_i + 1
            /\ UNCHANGED <<server, ignore_str, all_studies, instance_uuids,
                           patient_id, patient_name, all_series, series_i,
                           all_instances, instance_i, annotated_instances,
                           patient_ids, patient_names, returned, out_file, error>>
       ELSE \E ok \in BOOLEAN :
            LET series_info == server.series_info[series]
            IN  IF ~ok THEN Raise(RequestError)
                ELSE IF "Instances" \notin DOMAIN series_info
                THEN Raise(KeyError("Instances"))
                ELSE /\ all_instances' = series_info["Instances"]
                     /\ instance_i' = 1
                     /\ pc' = "instance"
                     /\ UNCHANGED <<server, ignore_str, all_studies, study_i,
                                    instance_uuids, patient_id, patient_name,
                                    all_series, series_i, annotated_instances,
                                    patient_ids, patient_names, returned,
                                    out_file, error>>

\* lines 93-100: the next instance of the series
ForInstance ==
    /\ pc = "instance"
    /\ UNCHANGED <<delete_vars, lists_vars>>
    /\ IF instance_i > Len(all_instances)
       THEN /\ pc' = "series"
            /\ series_i' = series_i + 1
            /\ UNCHANGED <<server, ignore_str, all_studies, study_i,
                           instance_uuids, patient_id, patient_name, all_series,
                           all_instances, instance_i, annotated_instances,
                           patient_ids, patient_names, returned, out_file, error>>
       ELSE IF ~IsAnnotated(instance, instance_uuids)
       THEN /\ instance_i' = instance_i + 1
            /\ UNCHANGED <<server, ignore_str, pc, all_studies, study_i,
                           instance_uuids, patient_id, patient_name, all_series,
                           series_i, all_instances, annotated_instances,
                           patient_ids, patient_names, returned, out_file, error>>
       ELSE \E ok \in BOOLEAN :
            LET instance_info == server.instance_info[instance]
                tags == instance_info["MainDicomTags"]
            IN  IF ~ok THEN Raise(RequestError)
                ELSE IF "SOPInstanceUID" \notin DOMAIN tags
                THEN Raise(KeyError("SOPInstanceUID"))
                ELSE /\ AppendResult(tags["SOPInstanceUID"])
                     /\ instance_i' = instance_i + 1
                     /\ UNCHANGED <<server, ignore_str, pc, all_studies, study_i,
                                    instance_uuids, patient_id, patient_name,
                                    all_series, series_i, all_instances,
                                    returned, out_file, error>>

\* line 102, and the assignment of line 115
Return ==
    /\ pc = "return"
    /\ UNCHANGED <<delete_vars, lists_vars>>
    /\ returned' = <<annotated_instances, patient_ids, patient_names>>
    /\ pc' = "write"
    /\ UNCHANGED <<server, ignore_str, locals, out_file, error>>

(***************************************************************************)
(* main, lines 121-126                                                     *)
(***************************************************************************)
\* zip(...) stops at the shortest of the three lists
Min3(a, b, c) ==
    IF a <= b /\ a <= c THEN a ELSE IF b <= c THEN b ELSE c

OutLines(uids, ids, names) ==
    [k \in 1 .. Min3(Len(uids), Len(ids), Len(names)) |->
        str_join(<<uids[k], ids[k], names[k]>>) \o <<"\n">>]

WriteFile ==
    /\ pc = "write"
    /\ UNCHANGED <<delete_vars, lists_vars>>
    /\ out_file' = [exists |-> TRUE,
                    lines  |-> OutLines(returned[1], returned[2], returned[3])]
    /\ pc' = "done"
    /\ UNCHANGED <<server, ignore_str, locals, returned, error>>

Next ==
    \/ GetAllStudies
    \/ ForStudy
    \/ GetAnnotation
    \/ GetStudyInfo
    \/ ForSeries
    \/ ForInstance
    \/ Return
    \/ WriteFile

Spec == Init /\ [][Next]_vars

(***************************************************************************)
(* Vocabulary of the properties, stated on the server's content and not    *)
(* through the operators of the walk.                                      *)
(***************************************************************************)
\* the results grew in this step
Appended == Len(annotated_instances') = Len(annotated_instances) + 1

ResultsUnchanged == UNCHANGED <<annotated_instances, patient_ids, patient_names>>

\* the walk is at an instance of the list (line 93), not past its end
AtInstance == pc = "instance" /\ instance_i <= Len(all_instances)

\* the part of an annotation key before its last ':' (the whole key without ':')
BeforeColon(key) ==
    LET colons == {k \in 1 .. Len(key) : key[k] = ":"}
    IN  IF colons = {} THEN key
        ELSE SubSeq(key, 1, (CHOOSE k \in colons : \A m \in colons : m <= k) - 1)

\* id is key without its last two characters
IsKeyLessTwo(id, key) ==
    /\ Len(key) = Len(id) + 2
    /\ \A k \in 1 .. Len(id) : key[k] = id[k]

\* the SOPInstanceUID the server holds for an instance, as a list of 0 or 1
UidOf(inst) ==
    LET tags == server.instance_info[inst]["MainDicomTags"]
    IN  IF "SOPInstanceUID" \in DOMAIN tags THEN <<tags["SOPInstanceUID"]>> ELSE <<>>

(***************************************************************************)
(* C1                                                                      *)
(***************************************************************************)
\* C1 as stated: an instance listed under a series of an annotated, not
\* excluded study yields a result if and only if its ID is the part before
\* ':N' of some key of the study's annotation.
C1_ResultIffReferenced ==
    [][(AtInstance /\ pc' # "raised") =>
          (Appended <=> \E key \in DOMAIN server.annotation[study] :
                            BeforeColon(key) = instance)]_vars

\* C1 as amended: an instance listed under a series of an annotated, not
\* excluded study yields a result (its SOPInstanceUID, appended) if and only
\* if its ID is some key of the study's annotation whose value is truthy, less
\* the key's last two characters; otherwise the results stay as they are.
C1_ResultIffTruthyKeyLessTwo ==
    [][(AtInstance /\ pc' # "raised") =>
          IF \E key \in DOMAIN server.annotation[study] :
                 server.annotation[study][key] /\ IsKeyLessTwo(instance, key)
          THEN /\ annotated_instances' = annotated_instances \o UidOf(instance)
               /\ Appended
          ELSE ResultsUnchanged]_vars

\* C1 witness: study 1's annotation holds i:0 truthy and j:0 falsy, the series
\* lists [i, j], and the walk has passed both with one result, that of i.
C1_Witness ==
    /\ pc = "instance" /\ study_i = 1 /\ instance_i = 3
    /\ all_instances = << <<"i">>, <<"j">> >>
    /\ server.annotation[1] = (<<"i", ":", "0">> :> TRUE) @@ (<<"j", ":", "0">> :> FALSE)
    /\ annotated_instances = << <<"u">> >>

(***************************************************************************)
(* C2                                                                      *)
(***************************************************************************)
\* C2: a study whose attachment list lacks 9999 is left for the next study
\* with the results as they are, and a result is only ever added while the
\* walk is in a study whose attachment list holds 9999.
C2_NoResultWithoutAttachment ==
    [][/\ (pc = "study" /\ study_i <= Len(all_studies)
              /\ "9999" \notin server.attachments[study] /\ pc' # "raised")
          => (pc' = "study" /\ study_i' = study_i + 1 /\ ResultsUnchanged)
       /\ Appended
          => (study_i \in 1 .. Len(all_studies) /\ study_i' = study_i
                 /\ "9999" \in server.attachments[study])]_vars

\* C2 witness: study 1 has no attachment 9999 but two series with instances,
\* and the walk has moved on to study 2 with no result.
C2_Witness ==
    /\ pc = "study" /\ study_i = 2
    /\ "9999" \notin server.attachments[all_studies[1]]
    /\ "Series" \in DOMAIN server.study_info[all_studies[1]]
    /\ Len(server.study_info[all_studies[1]]["Series"]) = 2
    /\ annotated_instances = <<>>

(***************************************************************************)
(* C3                                                                      *)
(***************************************************************************)
\* the exclusion string is given (not None, not empty) and occurs, compared
\* case-insensitively, in the PatientID tag of the study
ExcludedByTag(s) ==
    LET tags == server.study_info[s]["PatientMainDicomTags"]
    IN  /\ Len(ignore_str) = 1
        /\ Len(ignore_str[1]) > 0
        /\ "PatientID" \in DOMAIN tags
        /\ \E off \in 0 .. Len(tags["PatientID"]) :
              /\ off + Len(ignore_str[1]) <= Len(tags["PatientID"])
              /\ \A k \in 1 .. Len(ignore_str[1]) :
                    str_lower(<<tags["PatientID"][off + k]>>)
                        = str_lower(<<ignore_str[1][k]>>)

\* C3: a study whose PatientID contains the exclusion string, compared
\* case-insensitively, is skipped whole: once its tags are read the walk
\* goes to the next study, and no result is added while the walk is in it.
C3_ExcludedStudySkipped ==
    [][/\ (pc = "study_info" /\ ExcludedByTag(study) /\ pc' # "raised")
          => (pc' = "study" /\ study_i' = study_i + 1)
       /\ Appended => ~ExcludedByTag(study)]_vars

(***************************************************************************)
(* C4                                                                      *)
(***************************************************************************)
NoRepeat(l) == \A a, b \in 1 .. Len(l) : a # b => l[a] # l[b]

\* the places of the hierarchy the server lists: <<a, b, c>> is the c-th
\* instance of the b-th series of the a-th study
ListedPlaces ==
    {p \in (1 .. MaxStudies + 1) \X (1 .. MaxChildren + 1) \X (1 .. MaxChildren + 1) :
        /\ p[1] <= Len(server.studies)
        /\ LET info == server.study_info[server.studies[p[1]]]
           IN  /\ "Series" \in DOMAIN info
               /\ p[2] <= Len(info["Series"])
               /\ LET sinfo == server.series_info[info["Series"][p[2]]]
                  IN  /\ "Instances" \in DOMAIN sinfo
                      /\ p[3] <= Len(sinfo["Instances"])}

InstanceAt(p) ==
    server.series_info[
        server.study_info[server.studies[p[1]]]["Series"][p[2]]]["Instances"][p[3]]

\* no instance ID is listed at two places, and no two listed instances have
\* the same SOPInstanceUID
DistinctLeaves ==
    /\ \A p, q \in ListedPlaces : p # q => InstanceAt(p) # InstanceAt(q)
    /\ \A p, q \in ListedPlaces :
          InstanceAt(p) # InstanceAt(q)
              => (UidOf(InstanceAt(p)) = <<>> \/ UidOf(InstanceAt(p)) # UidOf(InstanceAt(q)))

\* C4 as stated: no SOPInstanceUID is twice in the results, whatever the
\* server's content.
C4_NoUidTwice == NoRepeat(annotated_instances)

\* C4 as amended: no SOPInstanceUID is twice in the results, provided that the
\* server lists no instance ID at two places of the hierarchy and that no two
\* listed instances have the same SOPInstanceUID.
C4_NoUidTwiceOfDistinctLeaves ==
    \/ /\ NoRepeat(annotated_instances)
       /\ (Len(returned) = 3 => NoRepeat(returned[1]))
    \/ ~DistinctLeaves

\* C4 witness: a finished walk over distinct leaves with two results.
C4_Witness ==
    /\ pc = "done" /\ DistinctLeaves
    /\ Len(returned[1]) = 2

(***************************************************************************)
(* C5                                                                      *)
(***************************************************************************)
\* key names the instance: it is the instance's ID followed by a suffix
NamesInstance(key, inst) ==
    /\ Len(key) > Len(inst)
    /\ \A k \in 1 .. Len(inst) : key[k] = inst[k]

\* C5: every result added is the SOPInstanceUID of an instance that the
\* server lists under a series that it lists under the study the walk is in,
\* and that a key of this study's own annotation names.
C5_ResultBelongsToItsStudy ==
    [][Appended =>
          /\ study_i \in 1 .. Len(server.studies)
          /\ LET s == server.studies[study_i]
             IN  /\ "9999" \in server.attachments[s]
                 /\ \E key \in DOMAIN server.annotation[s] : NamesInstance(key, instance)
                 /\ \E b \in 1 .. Len(server.study_info[s]["Series"]) :
                       LET r == server.study_info[s]["Series"][b]
                       IN  /\ r = series
                           /\ \E c \in 1 .. Len(server.series_info[r]["Instances"]) :
                                 server.series_info[r]["Instances"][c] = instance
                 /\ annotated_instances'[Len(annotated_instances')]
                        = server.instance_info[instance]["MainDicomTags"]["SOPInstanceUID"]]_vars

\* C5 witness: study 1's annotation names j, study 2's does not, both list
\* series r1 = [i, j]; the walk has passed j in study 2, and the results are
\* those of i and j for study 1 and of i alone for study 2.
C5_Witness ==
    /\ pc = "instance" /\ study_i = 2 /\ instance_i = 3
    /\ all_instances = << <<"i">>, <<"j">> >>
    /\ <<"j", ":", "0">> \in DOMAIN server.annotation[1]
    /\ \A key \in DOMAIN server.annotation[2] : ~NamesInstance(key, <<"j">>)
    /\ annotated_instances = << <<"u">>, <<"v">>, <<"u">> >>

(***************************************************************************)
(* C6                                                                      *)
(***************************************************************************)
\* the walk is in a study whose annotation it has read (lines 76-100)
AnnotationRead == pc \in {"study_info", "series", "instance"}

\* C6 as stated: the set matched against holds, for every key "<id>:N" of the
\* study's annotation (here: every key whose value is truthy), the part <id>
\* before the suffix.
C6_SuffixStripped ==
    AnnotationRead =>
        \A key \in DOMAIN server.annotation[study] :
            server.annotation[study][key] => BeforeColon(key) \in instance_uuids

\* C6 as amended: the set matched against holds exactly the keys of the
\* study's annotation whose value is truthy, each less its last two
\* characters; so a key "<id>:N" with a truthy value matches the instance
\* "<id>" when N is one character, and no key yields its <id> when N is longer.
C6_LastTwoCharactersCut ==
    AnnotationRead =>
        /\ \A id \in instance_uuids :
              \E key \in DOMAIN server.annotation[study] :
                  server.annotation[study][key] /\ IsKeyLessTwo(id, key)
        /\ \A key \in DOMAIN server.annotation[study] :
              server.annotation[study][key] =>
                  /\ \E id \in instance_uuids : IsKeyLessTwo(id, key)
                  /\ (BeforeColon(key) \in instance_uuids) <=>
                        \E other \in DOMAIN server.annotation[study] :
                            /\ server.annotation[study][other]
                            /\ IsKeyLessTwo(BeforeColon(key), other)

\* C6 witness: the annotation read holds the key i:10 with a truthy value and
\* no other key, and the set matched against holds "i:" and not "i".
C6_Witness ==
    /\ pc = "study_info"
    /\ server.annotation[study] = (<<"i", ":", "1", "0">> :> TRUE)
    /\ instance_uuids = {<<"i", ":">>}

(***************************************************************************)
(* C7                                                                      *)
(***************************************************************************)
IsPrefix(a, b) == Len(a) <= Len(b) /\ \A k \in 1 .. Len(a) : a[k] = b[k]

\* the study is walked into: annotated, and not skipped at line 83
WalkedInto(s) ==
    /\ "9999" \in server.attachments[s]
    /\ "PatientID" \in DOMAIN server.study_info[s]["PatientMainDicomTags"]
    /\ ~IsIgnored(ignore_str,
                  NormaliseTag(server.study_info[s]["PatientMainDicomTags"]["PatientID"]))

\* the UIDs of the annotated instances of series r of study s, in list order
UidsOfSeries(s, r) ==
    LET l == server.series_info[r]["Instances"]
        RECURSIVE From(_)
        From(c) ==
            IF c > Len(l) THEN <<>>
            ELSE (IF IsAnnotated(l[c], InstanceUuids(server.annotation[s]))
                  THEN UidOf(l[c]) ELSE <<>>) \o From(c + 1)
    IN  From(1)

\* those of study s, its series in list order
UidsOfStudy(s) ==
    LET l == server.study_info[s]["Series"]
        RECURSIVE From(_)
        From(b) == IF b > Len(l) THEN <<>> ELSE UidsOfSeries(s, l[b]) \o From(b + 1)
    IN  IF WalkedInto(s) THEN From(1) ELSE <<>>

\* those of the server, its studies in list order
UidsInTraversalOrder ==
    LET RECURSIVE From(_)
        From(a) == IF a > Len(server.studies) THEN <<>>
                   ELSE UidsOfStudy(server.studies[a]) \o From(a + 1)
    IN  From(1)

\* C7: the list returned is the UIDs of the annotated instances in traversal
\* order (studies, then series, then instances, each in its list's order), and
\* every step of the walk leaves the three result lists as they are or adds
\* one element at their end.
C7_TraversalOrder ==
    /\ [](pc = "done" => returned[1] = UidsInTraversalOrder)
    /\ [][pc # "start" =>
            /\ IsPrefix(annotated_instances, annotated_instances')
            /\ IsPrefix(patient_ids, patient_ids')
            /\ IsPrefix(patient_names, patient_names')
            /\ Len(annotated_instances') <= Len(annotated_instances) + 1]_vars

\* C7 witness: a finished walk of two studies; the first gave the results of
\* two series of two instances each, the second one more.
C7_Witness ==
    /\ pc = "done"
    /\ returned[1] = << <<"u">>, <<"v">>, <<"v">>, <<"u">>, <<"u">> >>
    /\ server.study_info[1]["Series"] = <<"r1", "r2">>

(***************************************************************************)
(* C8                                                                      *)
(***************************************************************************)
\* the tag of the study the walk is in
TagOfStudy(name) == server.study_info[server.studies[study_i]]["PatientMainDicomTags"][name]

\* text is value with every space replaced by an underscore
IsUnderscored(text, value) ==
    /\ Len(text) = Len(value)
    /\ \A k \in 1 .. Len(value) :
          text[k] = (IF value[k] = " " THEN "_" ELSE value[k])

\* C8 as stated: the Patient ID and Patient Name of every result added are the
\* PatientID and PatientName tags of the study the walk is in.
C8_TagsAsStored ==
    [][Appended =>
          /\ patient_ids'[Len(patient_ids')] = TagOfStudy("PatientID")
          /\ patient_names'[Len(patient_names')] = TagOfStudy("PatientName")]_vars

\* C8 as amended: the Patient ID and Patient Name of every result added are
\* the PatientID and PatientName tags of the study the walk is in, with every
\* space replaced by an underscore; they are added at the same position as
\* the result's UID.
C8_TagsUnderscored ==
    [][Appended =>
          /\ Len(patient_ids') = Len(annotated_instances')
          /\ Len(patient_names') = Len(annotated_instances')
          /\ IsUnderscored(patient_ids'[Len(patient_ids')], TagOfStudy("PatientID"))
          /\ IsUnderscored(patient_names'[Len(patient_names')], TagOfStudy("PatientName"))]_vars

\* C8 witness: results of two studies, the first with a PatientID tag "a b".
C8_Witness ==
    /\ pc = "instance" /\ study_i = 2
    /\ server.study_info[1]["PatientMainDicomTags"]["PatientID"] = <<"a", " ", "b">>
    /\ patient_ids = << <<"a", "_", "b">>, <<"c", "2">> >>
    /\ patient_names = << <<"N", "_", "1">>, <<"N", "_", "2">> >>

(***************************************************************************)
(* C9                                                                      *)
(***************************************************************************)
\* the first required field that is absent where the walk reads next, as a
\* list of 0 or 1: lines 78-80, line 91, line 97
AbsentField ==
    IF pc = "study_info"
    THEN LET info == server.study_info[study]
         IN  IF "PatientID" \notin DOMAIN info["PatientMainDicomTags"] THEN <<"PatientID">>
             ELSE IF "PatientName" \notin DOMAIN info["PatientMainDicomTags"]
             THEN <<"PatientName">>
             ELSE IF "Series" \notin DOMAIN info THEN <<"Series">>
             ELSE <<>>
    ELSE IF pc = "series" /\ series_i <= Len(all_series)
    THEN IF "Instances" \notin DOMAIN server.series_info[series]
         THEN <<"Instances">> ELSE <<>>
    ELSE IF AtInstance /\ instance \in instance_uuids
    THEN IF UidOf(instance) = <<>> THEN <<"SOPInstanceUID">> ELSE <<>>
    ELSE <<>>

\* C9 as stated: a walk that ended on an absent field ended with a
\* MissingFieldError that names the resource ID and the field.
C9_MissingFieldError ==
    (pc = "raised" /\ error.type # "RequestException")
        => (error.type = "MissingFieldError" /\ Len(error.args) = 2)

\* C9 as amended: when a required field (PatientID, PatientName, Series,
\* Instances or SOPInstanceUID) is absent on the resource the walk reads, the
\* walk ends there with an exception: a KeyError whose one argument is the
\* name of the field (the resource ID is not named) when the fetch succeeded;
\* no value stands in for the absent one, and a KeyError arises in no other way.
C9_KeyErrorNamesField ==
    [][/\ AbsentField # <<>>
          => /\ pc' = "raised"
             /\ ResultsUnchanged
             /\ \/ error' = [type |-> "RequestException", args |-> <<>>]
                \/ error' = [type |-> "KeyError", args |-> AbsentField]
       /\ (error'.type # "" /\ error'.type # "RequestException")
          => (AbsentField # <<>> /\ error'.type = "KeyError")]_vars

\* C9 witness: the walk ended at an instance without SOPInstanceUID.
C9_Witness ==
    /\ pc = "raised"
    /\ error = [type |-> "KeyError", args |-> <<"SOPInstanceUID">>]
    /\ UidOf(instance) = <<>>

MaxRows == 4

MaxChunk == 3

\* the orders in which n rows can be put
RowOrders(n) ==
    {f \in [1 .. n -> 1 .. n] : \A a, b \in 1 .. n : a # b => f[a] # f[b]}

\* math.ceil(n / c) for n >= 0 and c >= 1
CeilOfQuotient(n, c) == (n + c - 1) \div c

\* range(start, stop, step) for step >= 1, as a list
Range(start, stop, step) ==
    [k \in 1 .. (IF stop > start THEN (stop - start + step - 1) \div step ELSE 0) |->
        start + (k - 1) * step]

\* mutant of split_intervals: the quotient is rounded down
split_intervals_floor(n, c) == Range(c, (n \div c) * c, c)

\* lines 56-66, with n = full_df.shape[0] and c = chunk_size
split_intervals(n, c) == Range(c, CeilOfQuotient(n, c) * c, c)

\* ary[lo:hi] for lo, hi >= 0
Slice(ary, lo, hi) ==
    LET m == IF hi > Len(ary) THEN Len(ary) ELSE hi
    IN  IF lo >= m THEN <<>> ELSE SubSeq(ary, lo + 1, m)

\* numpy.split(ary, indices): ary[:i1], ary[i1:i2], ..., ary[ik:]
np_split(ary, indices) ==
    [k \in 1 .. Len(indices) + 1 |->
        Slice(ary,
              IF k = 1 THEN 0 ELSE indices[k - 1],
              IF k = Len(indices) + 1 THEN Len(ary) ELSE indices[k])]

\* mutant of BatchFilename: the batch number is left out of the name
BatchFilenameUnnumbered(i) == <<"Batch", 1>>

\* line 137, i counted from 0 by enumerate
BatchFilename(i) == <<"Batch", i + 1>>

\* what 1 / 0 raises
ZeroDivisionError == [type |-> "ZeroDivisionError", args |-> <<>>]

\* the walk and orthanc_delete.py are not run
WalkIdle ==
    /\ server = <<>>
    /\ ignore_str = <<>>
    /\ pc = "idle"
    /\ InitLocals
    /\ returned = <<>>
    /\ out_file = NoFile
    /\ error = NoError

ListsInit ==
    /\ WalkIdle
    /\ DeleteIdle
    /\ lists_pc = "start"
    /\ output_type \in {"full", "split"}
    /\ chunk_size \in 0 .. MaxChunk
    /\ list_df = <<>>
    /\ random_df = <<>>
    /\ interval = <<>>
    /\ split_dfs = <<>>
    /\ batch_i = 0
    /\ files = <<>>
    /\ lists_error = NoError

\* lines 112-122: the table is pulled from the server; in full mode it is written
PullUrls ==
    /\ lists_pc = "start"
    /\ UNCHANGED <<vars, delete_vars>>
    /\ \E ok \in BOOLEAN :
        IF ~ok
        THEN /\ lists_pc' = "raised"
             /\ lists_error' = RequestError
             /\ UNCHANGED <<output_type, chunk_size, list_df, random_df, interval,
                            split_dfs, batch_i, files>>
        ELSE \E n \in 0 .. MaxRows :
             /\ list_df' = [k \in 1 .. n |-> k]
             /\ IF output_type = "full"
                THEN /\ files' = (<<"full">> :> list_df')
                     /\ lists_pc' = "done"
                ELSE /\ files' = files
                     /\ lists_pc' = "shuffle"
             /\ UNCHANGED <<output_type, chunk_size, random_df, interval,
                            split_dfs, batch_i, lists_error>>

\* line 125: sample(frac=1).reset_index(drop=True) puts the rows in some order
Shuffle ==
    /\ lists_pc = "shuffle"
    /\ UNCHANGED <<vars, delete_vars>>
    /\ \E order \in RowOrders(Len(list_df)) :
          random_df' = [k \in 1 .. Len(list_df) |-> list_df[order[k]]]
    /\ lists_pc' = "intervals"
    /\ UNCHANGED <<output_type, chunk_size, list_df, interval, split_dfs,
                   batch_i, files, lists_error>>

\* line 128
SplitIntervals ==
    /\ lists_pc = "intervals"
    /\ UNCHANGED <<vars, delete_vars>>
    /\ IF chunk_size = 0
       THEN /\ lists_pc' = "raised"
            /\ lists_error' = ZeroDivisionError
            /\ UNCHANGED interval
       ELSE /\ interval' = split_intervals(Len(random_df), chunk_size)
            /\ lists_pc' = "split"
            /\ UNCHANGED lists_error
    /\ UNCHANGED <<output_type, chunk_size, list_df, random_df, split_dfs,
                   batch_i, files>>

\* line 131
NpSplit ==
    /\ lists_pc = "split"
    /\ UNCHANGED <<vars, delete_vars>>
    /\ split_dfs' = np_split(random_df, interval)
    /\ batch_i' = 0
    /\ lists_pc' = "write"
    /\ UNCHANGED <<output_type, chunk_size, list_df, random_df, interval,
                   files, lists_error>>

\* lines 135-138: the next batch is written; a file of the same name is replaced
WriteBatch ==
    /\ lists_pc = "write"
    /\ UNCHANGED <<vars, delete_vars>>
    /\ IF batch_i < Len(split_dfs)
       THEN /\ files' = (BatchFilename(batch_i) :> split_dfs[batch_i + 1]) @@ files
            /\ batch_i' = batch_i + 1
            /\ lists_pc' = "write"
       ELSE /\ lists_pc' = "done"
            /\ UNCHANGED <<files, batch_i>>
    /\ UNCHANGED <<output_type, chunk_size, list_df, random_df, interval,
                   split_dfs, lists_error>>

ListsNext ==
    \/ PullUrls
    \/ Shuffle
    \/ SplitIntervals
    \/ NpSplit
    \/ WriteBatch

SpecLists == ListsInit /\ [][ListsNext]_lists_vars

(***************************************************************************)
(* C11                                                                     *)
(***************************************************************************)
\* C11: in split mode with chunk_size >= 1, every batch split off and every
\* batch file written has at most chunk_size rows.
C11_BatchAtMostChunkSize ==
    (output_type = "split" /\ chunk_size >= 1) =>
        /\ \A k \in 1 .. Len(split_dfs) : Len(split_dfs[k]) <= chunk_size
        /\ \A name \in DOMAIN files : Len(files[name]) <= chunk_size

\* C11 witness: three rows in batches of two: a file of two rows and a file
\* of one row have been written.
C11_Witness ==
    /\ lists_pc = "done" /\ output_type = "split"
    /\ chunk_size = 2 /\ Len(random_df) = 3
    /\ DOMAIN files = {<<"Batch", 1>>, <<"Batch", 2>>}
    /\ Len(files[<<"Batch", 1>>]) = 2
    /\ Len(files[<<"Batch", 2>>]) = 1

(***************************************************************************)
(* orthanc_delete.py: main checks the credentials typed by the user, asks  *)
(* for the word DELETE and then deletes every patient, or attachment 9999  *)
(* of every study.  A URL is the list of its path segments below the       *)
(* server URL.  A request is recorded when it is sent, with the status of  *)
(* its response, or NoResponse when the request raised instead.            *)
(***************************************************************************)
MaxItems == 2

\* line 47
ConnectionTests == 3

ItemPool == {"a", "b", "c"}

CredentialPool == {<<"u", "p">>, <<"u", "q">>}

StatusPool == {200, 401}

PromptPool == {"DELETE", "delete", "no"}

NoResponse == 0

LoginUrl == <<>>

Request(method, url, auth, code) ==
    [method |-> method, url |-> url, auth |-> auth, status |-> code]

\* mutant of LoopContinues: the loop runs once more after the last test is used
LoopContinuesAtZero(tests, connected) == tests >= 0 /\ connected = FALSE

\* line 48: connection_status == 0 holds of False
LoopContinues(tests, connected) == tests > 0 /\ connected = FALSE

\* mutant of PermissionGiven: the answer is compared without its case
PermissionGivenAnyCase(answer) == answer \in {"DELETE", "delete"}

\* line 91
PermissionGiven(answer) == answer = "DELETE"

\* line 70
OrthancUrl(type) == IF type = "annotations" THEN <<"studies">> ELSE <<"patients">>

\* mutant of ItemUrl: the attachment is not named
ItemUrlOfResource(type, item) == OrthancUrl(type) \o <<item>>

\* line 74
ItemUrl(type, item) ==
    OrthancUrl(type) \o <<item>> \o
        (IF type = "annotations" THEN <<"attachments", "9999">> ELSE <<>>)

DeleteInit ==
    /\ WalkIdle
    /\ ListsIdle
    /\ delete_pc = "start"
    /\ delete_type \in {"patients", "annotations"}
    /\ connection_status = FALSE
    /\ connection_tests = 0
    /\ credentials = <<>>
    /\ status = <<>>
    /\ main_credentials = <<>>
    /\ prompt = <<>>
    /\ orthanc_list = <<>>
    /\ item_i = 0
    /\ http_requests = <<>>
    /\ delete_error = NoError

\* an exception leaves main
DeleteRaise(exc) ==
    /\ delete_pc' = "raised"
    /\ delete_error' = exc

\* lines 81-83 and 46-47: the server URL is read and check_credentials entered
Main ==
    /\ delete_pc = "start"
    /\ UNCHANGED <<vars, lists_vars>>
    /\ \E readable \in BOOLEAN :
        IF readable
        THEN /\ connection_status' = FALSE
             /\ connection_tests' = ConnectionTests
             /\ delete_pc' = "login"
             /\ UNCHANGED delete_error
        ELSE /\ DeleteRaise([type |-> "OSError", args |-> <<>>])
             /\ UNCHANGED <<connection_status, connection_tests>>
    /\ UNCHANGED <<delete_type, credentials, status, main_credentials, prompt,
                   orthanc_list, item_i, http_requests>>

\* lines 48-56: one turn of the loop
LoginAttempt ==
    /\ delete_pc = "login"
    /\ LoopContinues(connection_tests, connection_status)
    /\ UNCHANGED <<vars, lists_vars>>
    /\ \E typed \in CredentialPool, code \in StatusPool \cup {NoResponse} :
        /\ credentials' = <<typed>>
        /\ http_requests' = Append(http_requests, Request("GET", LoginUrl, typed, code))
        /\ IF code = NoResponse
           THEN /\ DeleteRaise(RequestError)
                /\ UNCHANGED <<connection_status, connection_tests>>
           ELSE /\ IF code = 200
                   THEN /\ connection_status' = TRUE
                        /\ UNCHANGED connection_tests
                   ELSE /\ connection_tests' = connection_tests - 1
                        /\ UNCHANGED connection_status
                /\ UNCHANGED <<delete_pc, delete_error>>
    /\ UNCHANGED <<delete_type, status, main_credentials, prompt, orthanc_list, item_i>>

\* lines 58 and 83-86: check_credentials returns and main looks at status
CheckCredentialsReturn ==
    /\ delete_pc = "login"
    /\ ~LoopContinues(connection_tests, connection_status)
    /\ UNCHANGED <<vars, lists_vars>>
    /\ status' = <<connection_status>>
    /\ main_credentials' = credentials
    /\ delete_pc' = IF connection_status THEN "prompt" ELSE "done"
    /\ UNCHANGED <<delete_type, connection_status, connection_tests, credentials,
                   prompt, orthanc_list, item_i, http_requests, delete_error>>

\* lines 89-94
ConfirmPrompt ==
    /\ delete_pc = "prompt"
    /\ UNCHANGED <<vars, lists_vars>>
    /\ \E answer \in PromptPool :
        /\ prompt' = <<answer>>
        /\ delete_pc' = IF PermissionGiven(answer) THEN "get_list" ELSE "done"
    /\ UNCHANGED <<delete_type, connection_status, connection_tests, credentials,
                   status, main_credentials, orthanc_list, item_i, http_requests,
                   delete_error>>

\* lines 70-72
GetList ==
    /\ delete_pc = "get_list"
    /\ UNCHANGED <<vars, lists_vars>>
    /\ \E answered \in BOOLEAN :
        /\ http_requests' = Append(http_requests,
              Request("GET", OrthancUrl(delete_type), main_credentials[1],
                      IF answered THEN 200 ELSE NoResponse))
        /\ IF answered
           THEN /\ \E list \in DistinctListsUpTo(ItemPool, MaxItems) : orthanc_list' = list
                /\ item_i' = 0
                /\ delete_pc' = "delete"
                /\ UNCHANGED delete_error
           ELSE /\ DeleteRaise(RequestError)
                /\ UNCHANGED <<orthanc_list, item_i>>
    /\ UNCHANGED <<delete_type, connection_status, connection_tests, credentials,
                   status, main_credentials, prompt>>

\* lines 73-76: the next item is deleted; the response is not looked at
DeleteItem ==
    /\ delete_pc = "delete"
    /\ UNCHANGED <<vars, lists_vars>>
    /\ IF item_i < Len(orthanc_list)
       THEN \E code \in {200, 404, NoResponse} :
            /\ http_requests' = Append(http_requests,
                  Request("DELETE", ItemUrl(delete_type, orthanc_list[item_i + 1]),
                          main_credentials[1], code))
            /\ IF code = NoResponse
               THEN /\ DeleteRaise(RequestError)
                    /\ UNCHANGED item_i
               ELSE /\ item_i' = item_i + 1
                    /\ UNCHANGED <<delete_pc, delete_error>>
       ELSE /\ delete_pc' = "done"
            /\ UNCHANGED <<item_i, http_requests, delete_error>>
    /\ UNCHANGED <<delete_type, connection_status, connection_tests, credentials,
                   status, main_credentials, prompt, orthanc_list>>

DeleteNext ==
    \/ Main
    \/ LoginAttempt
    \/ CheckCredentialsReturn
    \/ ConfirmPrompt
    \/ GetList
    \/ DeleteItem

\* the program is sequential: while the prompts are answered and the requests
\* return or fail, its next step is taken
SpecDelete == DeleteInit /\ [][DeleteNext]_delete_vars /\ WF_delete_vars(DeleteNext)

\* the requests sent with a method, oldest first
RequestsOf(method) == SelectSeq(http_requests, LAMBDA r : r.method = method)

(***************************************************************************)
(* C12                                                                     *)
(***************************************************************************)
\* the target the claim gives for the k-th item of the list
C12_Target(k) ==
    IF delete_type = "annotations"
    THEN <<"studies", orthanc_list[k], "attachments", "9999">>
    ELSE <<"patients", orthanc_list[k]>>

\* C12: the DELETE requests sent are one for each item of the fetched list
\* gone through so far, in list order, on the patient (type patients) or on
\* attachment 9999 of the study (type annotations); when delete_from_server
\* has returned there is one for every item; with type annotations none is
\* on a patient, study, series or instance itself.
C12_OneDeletePerItem ==
    LET deletes == RequestsOf("DELETE")
    IN  /\ Len(deletes) <= Len(orthanc_list)
        /\ \A k \in 1 .. Len(deletes) : deletes[k].url = C12_Target(k)
        /\ (delete_pc = "done" /\ prompt = <<"DELETE">>) =>
              Len(deletes) = Len(orthanc_list)
        /\ delete_type = "annotations" =>
              \A k \in 1 .. Len(deletes) :
                 ~(/\ Len(deletes[k].url) = 2
                   /\ deletes[k].url[1] \in {"patients", "studies", "series", "instances"})

\* C12 witness: with type annotations and a list of two studies, both
\* attachments have been deleted and delete_from_server has returned.
C12_Witness ==
    /\ delete_pc = "done" /\ delete_type = "annotations"
    /\ orthanc_list = <<"b", "a">>
    /\ Len(RequestsOf("DELETE")) = 2
    /\ RequestsOf("DELETE")[1].url = <<"studies", "b", "attachments", "9999">>
    /\ RequestsOf("DELETE")[2].url = <<"studies", "a", "attachments", "9999">>

(***************************************************************************)
(* C13                                                                     *)
(***************************************************************************)
\* C13: a DELETE request is sent only after a credentials check of the same
\* run was answered with status 200 and the user then typed exactly DELETE;
\* after three failed logins, or any other answer to the prompt, no DELETE
\* request has been sent.
C13_DeleteOnlyAfterLoginAndConfirmation ==
    /\ \A d \in 1 .. Len(http_requests) :
          http_requests[d].method = "DELETE" =>
             /\ prompt = <<"DELETE">>
             /\ status = <<TRUE>>
             /\ \E g \in 1 .. d - 1 :
                   /\ http_requests[g].method = "GET"
                   /\ http_requests[g].url = LoginUrl
                   /\ http_requests[g].status = 200
    /\ (status = <<FALSE>> \/ (prompt # <<>> /\ prompt # <<"DELETE">>)) =>
          RequestsOf("DELETE") = <<>>

\* C13 witness: after one refused login, an accepted one and the answer
\* DELETE, a DELETE request has been sent.
C13_Witness ==
    /\ Len(http_requests) = 4
    /\ http_requests[1].status = 401
    /\ http_requests[2].status = 200
    /\ prompt = <<"DELETE">>
    /\ http_requests[4].method = "DELETE"

(***************************************************************************)
(* C14                                                                     *)
(***************************************************************************)
\* the login attempts made, oldest first
LoginAttempts ==
    SelectSeq(http_requests, LAMBDA r : r.method = "GET" /\ r.url = LoginUrl)

\* what the claim says of the attempts made so far and of the value returned
C14_AttemptsAndReturn ==
    LET attempts == LoginAttempts
        n == Len(attempts)
        AllRefused == n = 3 /\ \A k \in 1 .. n : attempts[k].status \notin {200, NoResponse}
    IN  /\ n <= 3
        /\ \A k \in 1 .. n - 1 : attempts[k].status \notin {200, NoResponse}
        /\ status = <<TRUE>> =>
              /\ attempts[n].status = 200
              /\ main_credentials = <<attempts[n].auth>>
        /\ status # <<>> => (status = <<FALSE>> <=> AllRefused)
        /\ (AllRefused /\ delete_pc # "login") => status = <<FALSE>>

\* C14: check_credentials makes at most three login attempts and is left
\* after them: no attempt follows one answered with 200, True is returned
\* with the credentials of the attempt answered with 200, and False is
\* returned exactly when three attempts were each answered with another
\* status.
C14_TerminatesWithinThreeAttempts ==
    /\ []C14_AttemptsAndReturn
    /\ <>(delete_pc \notin {"start", "login"})

\* C14 witness: two refused attempts, then an attempt with other credentials
\* answered with 200: True is returned with the credentials typed last.
C14_Witness ==
    /\ status = <<TRUE>>
    /\ Len(LoginAttempts) = 3
    /\ LoginAttempts[1].auth = <<"u", "p">>
    /\ LoginAttempts[2].auth = <<"u", "p">>
    /\ LoginAttempts[3].auth = <<"u", "q">>
    /\ main_credentials = <<<<"u", "q">>>>

(***************************************************************************)
(* C15                                                                     *)
(***************************************************************************)
RECURSIVE BatchesConcatenated(_)
\* the rows of the batch files numbered 1 to k, in that order
BatchesConcatenated(k) ==
    IF k = 0 THEN <<>> ELSE BatchesConcatenated(k - 1) \o files[<<"Batch", k>>]

\* C15: in split mode the batch files are numbered from 1 without a gap and,
\* read in the order of their numbers, hold the rows of the shuffled table
\* written so far in its order; when main has returned they hold the whole
\* shuffled table, and every row of the table is in exactly one place of
\* exactly one batch.
C15_BatchesPartitionShuffledTable ==
    LET written == Cardinality(DOMAIN files)
    IN  (output_type = "split" /\ chunk_size >= 1) =>
        /\ DOMAIN files = {<<"Batch", k>> : k \in 1 .. written}
        /\ written = batch_i
        /\ LET rows == BatchesConcatenated(written)
           IN  /\ Len(rows) <= Len(random_df)
               /\ rows = SubSeq(random_df, 1, Len(rows))
        /\ lists_pc = "done" =>
              /\ BatchesConcatenated(written) = random_df
              /\ \A row \in 1 .. Len(list_df) :
                    Cardinality({place \in (1 .. written) \X (1 .. Len(list_df)) :
                                    /\ place[2] <= Len(files[<<"Batch", place[1]>>])
                                    /\ files[<<"Batch", place[1]>>][place[2]] = row}) = 1

\* C15 witness: four rows shuffled and split in batches of two, an exact
\* multiple: two files hold the shuffled table between them.
C15_Witness ==
    /\ lists_pc = "done" /\ output_type = "split" /\ chunk_size = 2
    /\ random_df = <<3, 1, 4, 2>>
    /\ DOMAIN files = {<<"Batch", 1>>, <<"Batch", 2>>}
    /\ files[<<"Batch", 1>>] = <<3, 1>>
    /\ files[<<"Batch", 2>>] = <<4, 2>>

====
